---- MODULE Spec2Model ----
(***************************************************************************)
(* The hierarchical, scope-bound registry of js/core/src/registry.ts.      *)
(*                                                                         *)
(* Registry objects live in `registries` (a heap indexed by node id); the  *)
(* AsyncLocalStorage binding of every asynchronous call chain is           *)
(* `registryAls`; every call chain (task) is either idle, holding the      *)
(* outcome of its last call, or suspended at an `await` of an async        *)
(* method.  One step of a task is one synchronous segment of JavaScript:   *)
(* everything between two awaits happens atomically, callee prefixes       *)
(* included.                                                               *)
(***************************************************************************)
EXTENDS Integers, Sequences, FiniteSets, TLC

(***************************************************************************)
(* Bounds of the model.                                                    *)
(***************************************************************************)
NumTasks == 2
MaxNodes == 2

Tasks == 1..NumTasks

(***************************************************************************)
(* Values.  A string is a sequence of atoms; the atom "/" is the separator *)
(* and any other atom is a run of non-separator characters.                *)
(***************************************************************************)
GlobalRegistry == 0
NoParent == -1
Undefined == "undefined"
SEP == "/"

TypeModel == <<"model">>
PluginP == <<"p">>
NameX == <<"p", SEP, "x">>
NameShort == <<"p">>
NameLong == <<"p", SEP, "x", SEP, "y">>

\* `/${type}/${action.__action.name}`
ActionKey(type, name) == <<SEP>> \o type \o <<SEP>> \o name

KeyX == ActionKey(TypeModel, NameX)
KeyShort == ActionKey(TypeModel, NameShort)
KeyLong == ActionKey(TypeModel, NameLong)
KeyBare == <<"model", SEP, "p", SEP, "x", SEP, "y">>
KeyEmptySeg == <<SEP, "model", SEP, SEP, "x">>
\* Keys of every shape: of four segments, of fewer and of more, without the
\* leading separator, with an empty third segment.
ActionKeys == {KeyX, KeyShort, KeyLong, KeyBare, KeyEmptySeg}

\* An action is a callable with a name; `impl` tells two actions of one name apart.
Act(name, impl) == [name |-> name, impl |-> impl]
\* The action the initializer of the plugin registered as `name` registers.
ProvidedAction(name) == Act(name \o <<SEP, "x">>, "pl")

SchemaS == <<"S">>
SchemaNames == {SchemaS}
\* Environment names.
EnvDev == <<"dev">>
Envs == {EnvDev}
StoreKinds == {"traceStore", "flowStateStore"}

VARIABLES registries, registryAls, task, obs, lastRegistered

vars == <<registries, registryAls, task, obs, lastRegistered>>

(***************************************************************************)
(* Strings.                                                                *)
(***************************************************************************)
RECURSIVE split(_)
\* String.prototype.split('/'): the segments between separators.
split(s) ==
    IF s = <<>> THEN << <<>> >>
    ELSE LET rest == split(Tail(s)) IN
         IF Head(s) = SEP THEN << <<>> >> \o rest
         ELSE << <<Head(s)>> \o Head(rest) >> \o Tail(rest)

parsePluginName_AtLeast(registryKey) ==
    LET tokens == split(registryKey) IN
    IF Len(tokens) >= 3 THEN <<tokens[3]>> ELSE <<>>

\* The optional result: <<>> is undefined, <<s>> is the string s.
parsePluginName(registryKey) ==
    LET tokens == split(registryKey) IN
    IF Len(tokens) = 4 THEN <<tokens[3]>> ELSE <<>>

\* JavaScript truthiness of an optional string: undefined and "" are falsy.
Truthy(opt) == IF opt = <<>> THEN FALSE ELSE opt[1] # <<>>

(***************************************************************************)
(* The Registry objects.                                                   *)
(***************************************************************************)
\* A table of actions is an object: it has the keys written to it.
EmptyActions == [k \in {} |-> Undefined]

\* table[key]: undefined for a key the object does not have.
Get(table, key) == IF key \in DOMAIN table THEN table[key] ELSE Undefined

\* table[key] = value
Put(table, key, value) ==
    [k \in DOMAIN table \cup {key} |-> IF k = key THEN value ELSE table[k]]
EmptySchemas == [k \in SchemaNames |-> Undefined]
EmptyEnvs == [e \in Envs |-> Undefined]
\* A cache without a promise, and the promises the providers have returned.
EmptyCache == [e \in Envs |-> 0]
NoPromises == [e \in Envs |-> <<>>]
\* No registration of any key has been made.
NeverRegistered == [k \in {} |-> [impl |-> Undefined, over |-> FALSE]]

\* new Registry(parent)
NewRegistry(p) ==
    [parent |-> p,
     actionsById |-> EmptyActions,
     traceStoresByEnv |-> EmptyEnvs,
     flowStateStoresByEnv |-> EmptyEnvs,
     pluginsByName |-> <<>>,
     schemasByName |-> EmptySchemas,
     traceStoresByEnvCache |-> EmptyCache,
     flowStateStoresByEnvCache |-> EmptyCache,
     traceStorePromises |-> NoPromises,
     flowStateStorePromises |-> NoPromises]

Created == DOMAIN registries

getRegistryInstance_Global(t) == GlobalRegistry

\* One binding for all call chains: that of some call chain that has one.
getRegistryInstance_Shared(t) ==
    LET bound == {u \in Tasks : registryAls[u] # <<>>} 
        u == CHOOSE u \in bound : TRUE IN
    IF bound = {} THEN GlobalRegistry ELSE registryAls[u][Len(registryAls[u])]

\* registryAls.getStore() || global[REGISTRY_KEY]
getRegistryInstance(t) ==
    IF registryAls[t] # <<>> THEN registryAls[t][Len(registryAls[t])]
    ELSE GlobalRegistry

\* The names of a node's plugin table in insertion order (Object.keys).
PluginKeys(n) == [i \in 1..Len(registries[n].pluginsByName) |->
                    registries[n].pluginsByName[i].name]

HasPlugin(n, name) == \E i \in 1..Len(registries[n].pluginsByName) :
                        registries[n].pluginsByName[i].name = name

PluginIndex(n, name) == CHOOSE i \in 1..Len(registries[n].pluginsByName) :
                          registries[n].pluginsByName[i].name = name

\* this.pluginsByName[name]
PluginEntry(n, name) == registries[n].pluginsByName[PluginIndex(n, name)]

\* The tables of a Registry object r, without its caches and without the memo
\* of its plugins.
TablesOf(r) ==
    [actionsById |-> r.actionsById,
     traceStoresByEnv |-> r.traceStoresByEnv,
     flowStateStoresByEnv |-> r.flowStateStoresByEnv,
     pluginsByName |-> [i \in 1..Len(r.pluginsByName) |->
                          <<r.pluginsByName[i].name, r.pluginsByName[i].provider>>],
     schemasByName |-> r.schemasByName]

Tables(n) == TablesOf(registries[n])

(***************************************************************************)
(* Tasks and the outcome of the call that returned in the last step.       *)
(***************************************************************************)
Idle ==
    [pc |-> "idle", op |-> "none", node |-> NoParent, key |-> <<>>,
     at |-> NoParent, wait |-> <<>>, pend |-> <<>>, walk |-> <<>>,
     acc |-> EmptyActions, names |-> <<>>, inits |-> 0, promise |-> 0]

IsIdle(t) == task[t].pc = "idle"

NoObs ==
    [op |-> "none", task |-> 0, node |-> NoParent, ctx |-> NoParent,
     key |-> <<>>, val |-> Undefined, status |-> "ok", walk |-> <<>>,
     acc |-> EmptyActions, sub |-> EmptyActions, names |-> <<>>,
     inits |-> 0, old |-> Undefined, error |-> <<>>]

\* The outcome of a call of task t that has returned to its caller.
Outcome(t, op, n, key, fields) ==
    [f \in DOMAIN NoObs |->
        IF f \in DOMAIN fields THEN fields[f]
        ELSE IF f = "op" THEN op
        ELSE IF f = "task" THEN t
        ELSE IF f = "node" THEN n
        ELSE IF f = "ctx" THEN getRegistryInstance(t)
        ELSE IF f = "key" THEN key
        ELSE NoObs[f]]

Init ==
    /\ registries = [n \in {GlobalRegistry} |-> NewRegistry(NoParent)]
    /\ registryAls = [t \in Tasks |-> <<>>]
    /\ task = [t \in Tasks |-> Idle]
    /\ obs = NoObs
    /\ lastRegistered = [n \in {GlobalRegistry} |-> NeverRegistered]

(***************************************************************************)
(* Scope manager.                                                          *)
(***************************************************************************)
NodeIds == 0..(MaxNodes - 1)

\* The identity of the next Registry object constructed.
FreshNode == CHOOSE n \in NodeIds \ Created : \A m \in NodeIds \ Created : n <= m

RECURSIVE AncestorsIn(_, _)
\* n and the nodes above it in the heap regs.
AncestorsIn(regs, n) ==
    IF regs[n].parent = NoParent THEN {n}
    ELSE {n} \cup AncestorsIn(regs, regs[n].parent)

\* The nodes something still refers to: the default node, the nodes bound in
\* some asynchronous context (of a task, of an initializer in flight), the
\* nodes whose plugin memo holds a promise in flight, and their ancestors.
Reachable(regs, als) ==
    LET pending(n) == {i \in 1..Len(regs[n].pluginsByName) :
                          regs[n].pluginsByName[i].cached = "pending"} 
        roots == {GlobalRegistry}
                 \cup UNION {{als[t][i] : i \in DOMAIN als[t]} : t \in Tasks} 
                 \cup {n \in DOMAIN regs : pending(n) # {}}
                 \cup UNION {{regs[n].pluginsByName[i].ctx : i \in pending(n)} :
                               n \in DOMAIN regs} IN
    UNION {AncestorsIn(regs, r) : r \in roots \cap DOMAIN regs}

\* The heap without the Registry objects nothing refers to any more.
Collect(f, regs, als) == [n \in Reachable(regs, als) |-> f[n]]

\* Registry.withCurrent()
withCurrent(t) == NewRegistry(getRegistryInstance(t))

isolatedRegistry_Overlay(t) == NewRegistry(getRegistryInstance(t))

\* new Registry() of runInIsolatedRegistry
isolatedRegistry(t) == NewRegistry(NoParent)

\* registryAls.run(registry, () => fn(registry)): fn starts with `registry` bound.
runInRegistry(t, registry, op) ==
    /\ IsIdle(t)
    /\ NodeIds \ Created # {}
    /\ registries' = registries @@ (FreshNode :> registry)
    /\ lastRegistered' = lastRegistered @@ (FreshNode :> NeverRegistered)
    /\ registryAls' = [registryAls EXCEPT ![t] = Append(@, FreshNode)]
    /\ obs' = Outcome(t, op, FreshNode, <<>>, [val |-> Undefined])
    /\ UNCHANGED task

RunInTempRegistry(t) == runInRegistry(t, withCurrent(t), "runInTempRegistry")

RunInIsolatedRegistry(t) ==
    runInRegistry(t, isolatedRegistry(t), "runInIsolatedRegistry")

\* fn returns: the binding of the enclosing extent is current again, and the
\* registry of the scope is discarded once nothing refers to it.
RunInRegistryReturn(t) ==
    /\ IsIdle(t)
    /\ registryAls[t] # <<>>
    /\ LET als == [registryAls EXCEPT ![t] = SubSeq(@, 1, Len(@) - 1)] IN
       /\ registryAls' = als
       /\ registries' = Collect(registries, registries, als)
       /\ lastRegistered' = Collect(lastRegistered, registries, als)
    /\ obs' = Outcome(t, "return", getRegistryInstance(t), <<>>, [val |-> Undefined])
    /\ UNCHANGED task

(***************************************************************************)
(* Registry methods on tables: registrations and synchronous lookups.      *)
(***************************************************************************)
Read(n, v) == [node |-> n, val |-> v]

Registry_registerAction_KeepFirst(n, type, action) ==
    LET key == ActionKey(type, action.name) IN
    IF key \in DOMAIN registries[n].actionsById THEN registries[n].actionsById
    ELSE Put(registries[n].actionsById, key, action.impl)

\* Registry.registerAction: this.actionsById[key] = action (a warning on overwrite).
Registry_registerAction(n, type, action) ==
    Put(registries[n].actionsById, ActionKey(type, action.name), action.impl)

\* Registry.registerSchema: this.schemasByName[name] = data
Registry_registerSchema(n, name, data) ==
    [registries[n].schemasByName EXCEPT ![name] = data]

RECURSIVE Registry_lookupSchema(_, _)
\* Registry.lookupSchema: this.schemasByName[name] || this.parent?.lookupSchema(name)
Registry_lookupSchema(n, name) ==
    LET v == registries[n].schemasByName[name] 
        p == registries[n].parent IN
    IF v # Undefined THEN v
    ELSE IF p # NoParent THEN Registry_lookupSchema(p, name)
    ELSE Undefined

\* The binding a node holds for a plugin name, by its provider (Undefined if none).
LocalPlugin(n, name) ==
    IF HasPlugin(n, name) THEN PluginEntry(n, name).provider ELSE Undefined

RECURSIVE Registry_lookupPlugin(_, _)
\* Registry.lookupPlugin: this.pluginsByName[name] || this.parent?.lookupPlugin(name)
Registry_lookupPlugin(n, name) ==
    LET v == LocalPlugin(n, name) 
        p == registries[n].parent IN
    IF v # Undefined THEN v
    ELSE IF p # NoParent THEN Registry_lookupPlugin(p, name)
    ELSE Undefined

\* The lookupAction an initializer has in flight: none.
NoNested == [on |-> FALSE, at |-> NoParent, wait |-> <<>>]

\* Registry.registerPluginProvider: a new memoizing wrapper (cached unset)
\* under `name`; an existing name keeps its place in the key order.  `ran`
\* records that provider.initializer of this provider has been called for
\* this name on this node, through this wrapper or through one it replaced.
Registry_registerPluginProvider(n, name, provider) ==
    LET ran == IF HasPlugin(n, name)
               THEN PluginEntry(n, name).provider = provider
                    /\ PluginEntry(n, name).ran
               ELSE FALSE 
        entry == [name |-> name, provider |-> provider, cached |-> "unset",
                  ctx |-> NoParent, ran |-> ran, nested |-> NoNested] IN
    IF HasPlugin(n, name)
    THEN [registries[n].pluginsByName EXCEPT ![PluginIndex(n, name)] = entry]
    ELSE Append(registries[n].pluginsByName, entry)

(***************************************************************************)
(* Module-level registrations and synchronous lookups of an idle task.     *)
(***************************************************************************)
\* The record of the registrations on a node after one more under key: the
\* action registered last and whether it or an earlier one replaced a different
\* action.
Registered(history, key, impl) ==
    Put(history, key,
        [impl |-> impl,
         over |-> IF key \in DOMAIN history
                  THEN history[key].over \/ history[key].impl # impl
                  ELSE FALSE])

RegisterAction(t, type, action) ==
    /\ IsIdle(t)
    /\ LET n == getRegistryInstance(t) 
           key == ActionKey(type, action.name) IN
       /\ registries' = [registries EXCEPT
                           ![n].actionsById = Registry_registerAction(n, type, action)]
       /\ lastRegistered' = [lastRegistered EXCEPT
                              ![n] = Registered(@, key, action.impl)]
       /\ obs' = Outcome(t, "registerAction", n, key,
                         [val |-> action.impl,
                          old |-> Get(registries[n].actionsById, key)])
    /\ UNCHANGED <<registryAls, task>>

RegisterSchema(t, name, data) ==
    /\ IsIdle(t)
    /\ LET n == getRegistryInstance(t) IN
       /\ registries' = [registries EXCEPT
                           ![n].schemasByName = Registry_registerSchema(n, name, data)]
       /\ obs' = Outcome(t, "registerSchema", n, name, [val |-> data])
    /\ UNCHANGED <<registryAls, task, lastRegistered>>

LookupSchema(t, name) ==
    /\ IsIdle(t)
    /\ LET n == getRegistryInstance(t) IN
       obs' = Outcome(t, "lookupSchema", n, name,
                      [val |-> Registry_lookupSchema(n, name)])
    /\ UNCHANGED <<registries, registryAls, task, lastRegistered>>

\* Some call is suspended on the initialization of plugin `name` of node n.
Awaited(n, name) == \E t \in Tasks : task[t].wait = <<n, name>>

\* A provider is registered again only between two initializations of its name.
RegisterPluginProvider(t, name, provider) ==
    /\ IsIdle(t)
    /\ LET n == getRegistryInstance(t) IN
       /\ HasPlugin(n, name) =>
            PluginEntry(n, name).cached # "pending" /\ ~Awaited(n, name)
       /\ registries' = [registries EXCEPT
                           ![n].pluginsByName =
                              Registry_registerPluginProvider(n, name, provider)]
       /\ obs' = Outcome(t, "registerPluginProvider", n, name, [val |-> provider])
    /\ UNCHANGED <<registryAls, task, lastRegistered>>

\* registry.lookupPlugin(name), called on the registry fn was handed.
RegistryLookupPlugin(t, name) ==
    /\ IsIdle(t)
    /\ LET n == getRegistryInstance(t) IN
       obs' = Outcome(t, "Registry.lookupPlugin", n, name,
                      [val |-> Registry_lookupPlugin(n, name)])
    /\ UNCHANGED <<registries, registryAls, task, lastRegistered>>

(***************************************************************************)
(* Plugin initialization.  The memo of a wrapper (`cached`) is unset, or   *)
(* the promise of the one execution of provider.initializer(), which        *)
(* carries the AsyncLocalStorage binding of the call that started it.      *)
(***************************************************************************)
Settled(w) == IF w = <<>> THEN TRUE
              ELSE PluginEntry(w[1], w[2]).cached \in {"done", "failed"}

Failed_Swallowed(w) == FALSE

Failed(w) == IF w = <<>> THEN FALSE
             ELSE PluginEntry(w[1], w[2]).cached = "failed"

\* The rejection of the promise a provider returned: <<>> is no rejection.
Rejection(provider) == <<provider>>

\* The rejection of the initialization a call awaited.
Thrown(w) == Rejection(PluginEntry(w[1], w[2]).provider)

\* What the promise of a successful initializer resolves with.
Initialized == "initialized"

Registry_initializePlugin_Delegating(n, name, ctx) ==
    LET p == registries[n].parent IN
    IF HasPlugin(n, name)
    THEN [plugins |-> registries[n].pluginsByName, wait |-> <<n, name>>,
          started |-> 0]
    ELSE IF p # NoParent /\ HasPlugin(p, name)
    THEN [plugins |-> registries[n].pluginsByName, wait |-> <<p, name>>,
          started |-> 0]
    ELSE [plugins |-> registries[n].pluginsByName, wait |-> <<>>, started |-> 0]

\* Registry.initializePlugin up to its await: the wrapper returns the cached
\* promise, or calls provider.initializer() and caches the promise it returns.
Registry_initializePlugin(n, name, ctx) ==
    IF ~HasPlugin(n, name)
    THEN [plugins |-> registries[n].pluginsByName, wait |-> <<>>, started |-> 0]
    ELSE IF PluginEntry(n, name).cached # "unset"
    THEN [plugins |-> registries[n].pluginsByName, wait |-> <<n, name>>,
          started |-> 0]
    ELSE [plugins |-> [registries[n].pluginsByName EXCEPT
                         ![PluginIndex(n, name)].cached = "pending",
                         ![PluginIndex(n, name)].ctx = ctx,
                         ![PluginIndex(n, name)].ran = TRUE],
          wait |-> <<n, name>>, started |-> 1]

\* The initializer resumes after its suspension point: it registers its action
\* through the module-level registerAction (on the registry bound in its own
\* asynchronous context) and resolves, or it rejects.
InitializerResume(n, name) ==
    /\ n \in Created
    /\ HasPlugin(n, name)
    /\ PluginEntry(n, name).cached = "pending"
    /\ PluginEntry(n, name).provider # "reentrant"
    /\ LET e == PluginEntry(n, name) 
           i == PluginIndex(n, name) 
           a == ProvidedAction(name) 
           key == ActionKey(TypeModel, a.name) 
           done == [registries EXCEPT ![n].pluginsByName[i].cached = "done"] 
           regs == IF e.provider = "late"
                   THEN [done EXCEPT ![e.ctx].actionsById =
                                        Registry_registerAction(e.ctx, TypeModel, a)]
                   ELSE [registries EXCEPT ![n].pluginsByName[i].cached = "failed"] 
           last == IF e.provider = "late"
                   THEN [lastRegistered EXCEPT ![e.ctx] = Registered(@, key, a.impl)]
                   ELSE lastRegistered IN
       /\ registries' = Collect(regs, regs, registryAls)
       /\ lastRegistered' = Collect(last, regs, registryAls)
    /\ obs' = NoObs
    /\ UNCHANGED <<registryAls, task>>

\* The module-level initializePlugin(name) up to the await of
\* Registry.initializePlugin; the walk records the binding the node held.
InitializePlugin(t, name) ==
    /\ IsIdle(t)
    /\ LET n == getRegistryInstance(t) 
           ip == Registry_initializePlugin(n, name, n) IN
       /\ registries' = [registries EXCEPT ![n].pluginsByName = ip.plugins]
       /\ task' = [task EXCEPT ![t] =
                     [Idle EXCEPT !.pc = "initializePlugin",
                                  !.op = "initializePlugin", !.node = n,
                                  !.key = name, !.at = n, !.wait = ip.wait,
                                  !.walk = <<Read(n, LocalPlugin(n, name))>>,
                                  !.names = <<name>>, !.inits = ip.started]]
    /\ obs' = NoObs
    /\ UNCHANGED <<registryAls, lastRegistered>>

\* The await of the initializer's promise settles: its result is returned, its
\* rejection is thrown; without a local binding the result is undefined.
InitializePluginResume(t) ==
    /\ task[t].pc = "initializePlugin"
    /\ Settled(task[t].wait)
    /\ obs' = Outcome(t, "initializePlugin", task[t].node, task[t].key,
                      [val |-> IF task[t].wait = <<>> \/ Failed(task[t].wait)
                               THEN Undefined ELSE Initialized,
                       status |-> IF Failed(task[t].wait) THEN "error" ELSE "ok",
                       error |-> IF Failed(task[t].wait) THEN Thrown(task[t].wait)
                                 ELSE <<>>,
                       walk |-> task[t].walk, names |-> task[t].names,
                       inits |-> task[t].inits])
    /\ task' = [task EXCEPT ![t] = Idle]
    /\ UNCHANGED <<registries, registryAls, lastRegistered>>

(***************************************************************************)
(* lookupAction.                                                           *)
(***************************************************************************)
RECURSIVE Registry_lookupAction_ParentFirst(_, _, _)
Registry_lookupAction_ParentFirst(n, key, entry) ==
    LET v == Get(registries[n].actionsById, key) 
        p == registries[n].parent IN
    IF entry = "call" /\ v = Undefined /\ Truthy(parsePluginName(key))
    THEN [kind |-> "await", node |-> n, val |-> Undefined, walk |-> <<>>]
    ELSE IF p # NoParent
    THEN LET r == Registry_lookupAction_ParentFirst(p, key, "call") IN
         IF r.kind = "return" /\ r.val = Undefined
         THEN [r EXCEPT !.val = v, !.walk = r.walk \o <<Read(n, v)>>]
         ELSE r
    ELSE [kind |-> "return", node |-> n, val |-> v, walk |-> <<Read(n, v)>>]

RECURSIVE Registry_lookupAction(_, _, _)
\* Registry.lookupAction from `entry` ("call": the start of the method on n;
\* "resumed": after its await) to the next await or to the value it returns,
\* through the synchronous prefixes of the parents it delegates to.  The walk
\* lists the reads of `this.actionsById[key] || ...` in the order made.
Registry_lookupAction(n, key, entry) ==
    LET v == Get(registries[n].actionsById, key) 
        p == registries[n].parent IN
    IF entry = "call" /\ v = Undefined /\ Truthy(parsePluginName(key))
    THEN [kind |-> "await", node |-> n, val |-> Undefined, walk |-> <<>>]
    ELSE IF v # Undefined
    THEN [kind |-> "return", node |-> n, val |-> v, walk |-> <<Read(n, v)>>]
    ELSE IF p # NoParent
         THEN LET r == Registry_lookupAction(p, key, "call") IN
              [r EXCEPT !.walk = <<Read(n, v)>> \o r.walk]
         ELSE [kind |-> "return", node |-> n, val |-> Undefined,
               walk |-> <<Read(n, v)>>]

\* One synchronous segment of a lookupAction of task t, entered at node n.
LookupActionSegment(t, cur, n, entry) ==
    LET r == Registry_lookupAction(n, cur.key, entry) 
        ctx == getRegistryInstance(t) IN
    IF r.kind = "return"
    THEN /\ obs' = Outcome(t, "lookupAction", cur.node, cur.key,
                           [val |-> r.val, walk |-> cur.walk \o r.walk,
                            names |-> cur.names, inits |-> cur.inits])
         /\ task' = [task EXCEPT ![t] = Idle]
         /\ UNCHANGED registries
    ELSE LET ip == Registry_initializePlugin(r.node, parsePluginName(cur.key)[1],
                                             ctx) IN
         /\ registries' = [registries EXCEPT ![r.node].pluginsByName = ip.plugins]
         /\ task' = [task EXCEPT ![t] =
                       [cur EXCEPT !.pc = "lookupAction", !.at = r.node,
                                   !.wait = ip.wait,
                                   !.walk = cur.walk \o r.walk,
                                   !.names = <<parsePluginName(cur.key)[1]>>,
                                   !.inits = cur.inits + ip.started]]
         /\ obs' = NoObs

\* One synchronous segment of the lookupAction(key) that the initializer of
\* plugin `name` of node n awaits, entered at node m: the registries after it.
\* The lookup returns, and the initializer resolves; or it awaits an
\* initialization, that of the initializer's own plugin included.
NestedLookupSegment(n, name, m, entry) ==
    LET e == PluginEntry(n, name) 
        key == ActionKey(TypeModel, ProvidedAction(name).name) 
        r == Registry_lookupAction(m, key, entry) 
        ip == Registry_initializePlugin(r.node, parsePluginName(key)[1], e.ctx) 
        started == [registries EXCEPT ![r.node].pluginsByName = ip.plugins] IN
    IF r.kind = "return"
    THEN [registries EXCEPT
            ![n].pluginsByName[PluginIndex(n, name)].cached = "done",
            ![n].pluginsByName[PluginIndex(n, name)].nested = NoNested]
    ELSE [started EXCEPT
            ![n].pluginsByName[PluginIndex(n, name)].nested =
               [on |-> TRUE, at |-> r.node, wait |-> ip.wait]]

\* The initializer of a re-entrant plugin resumes after its first suspension
\* point and awaits lookupAction of the key of its own action, through the
\* module-level function, in its own asynchronous context.
InitializerLookup(n, name) ==
    /\ n \in Created
    /\ HasPlugin(n, name)
    /\ PluginEntry(n, name).cached = "pending"
    /\ PluginEntry(n, name).provider = "reentrant"
    /\ ~PluginEntry(n, name).nested.on
    /\ registries' = NestedLookupSegment(n, name, PluginEntry(n, name).ctx, "call")
    /\ obs' = NoObs
    /\ UNCHANGED <<registryAls, task, lastRegistered>>

\* The await inside the initializer's lookupAction settles: a rejection
\* rejects the initializer, anything else lets the lookup go on.
InitializerLookupResume(n, name) ==
    /\ n \in Created
    /\ HasPlugin(n, name)
    /\ PluginEntry(n, name).cached = "pending"
    /\ PluginEntry(n, name).nested.on
    /\ Settled(PluginEntry(n, name).nested.wait)
    /\ LET i == PluginIndex(n, name) 
           regs == IF Failed(PluginEntry(n, name).nested.wait)
                   THEN [registries EXCEPT
                           ![n].pluginsByName[i].cached = "failed",
                           ![n].pluginsByName[i].nested = NoNested]
                   ELSE NestedLookupSegment(n, name, PluginEntry(n, name).nested.at,
                                            "resumed") IN
       /\ registries' = Collect(regs, regs, registryAls)
       /\ lastRegistered' = Collect(lastRegistered, regs, registryAls)
    /\ obs' = NoObs
    /\ UNCHANGED <<registryAls, task>>

\* The module-level lookupAction(key).
LookupAction(t, key) ==
    /\ IsIdle(t)
    /\ LET n == getRegistryInstance(t) IN
       LookupActionSegment(t, [Idle EXCEPT !.op = "lookupAction", !.node = n,
                                           !.key = key], n, "call")
    /\ UNCHANGED <<registryAls, lastRegistered>>

\* The await of initializePlugin settles: a rejection is thrown to the caller.
LookupActionResume(t) ==
    /\ task[t].pc = "lookupAction"
    /\ Settled(task[t].wait)
    /\ IF Failed(task[t].wait)
       THEN /\ obs' = Outcome(t, "lookupAction", task[t].node, task[t].key,
                              [status |-> "error", walk |-> task[t].walk,
                               error |-> Thrown(task[t].wait),
                               names |-> task[t].names, inits |-> task[t].inits])
            /\ task' = [task EXCEPT ![t] = Idle]
            /\ UNCHANGED registries
       ELSE LookupActionSegment(t, [task[t] EXCEPT !.wait = <<>>], task[t].at,
                                "resumed")
    /\ UNCHANGED <<registryAls, lastRegistered>>

(***************************************************************************)
(* listActions.                                                            *)
(***************************************************************************)
Merge_ParentWins(parentListing, local) ==
    [k \in DOMAIN parentListing \cup DOMAIN local |->
        IF k \in DOMAIN parentListing THEN parentListing[k] ELSE local[k]]

\* { ...parentListing, ...this.actionsById }
Merge(parentListing, local) ==
    [k \in DOMAIN parentListing \cup DOMAIN local |->
        IF k \in DOMAIN local THEN local[k] ELSE parentListing[k]]

RECURSIVE Registry_listActions(_)
\* Registry.listActions from its start on n to its first await: the await of
\* the first local plugin's initialization or, with no local plugin, the
\* await of the parent's listing, which starts the same way.
Registry_listActions(n) ==
    IF PluginKeys(n) # <<>> THEN [kind |-> "init", node |-> n]
    ELSE IF registries[n].parent # NoParent
         THEN Registry_listActions(registries[n].parent)
         ELSE [kind |-> "merge", node |-> n]

RECURSIVE Ancestors(_)
\* The nodes a lookup on n can reach: n and the nodes above it.
Ancestors(n) ==
    IF registries[n].parent = NoParent THEN {n}
    ELSE {n} \cup Ancestors(registries[n].parent)

\* The node of the chain of `origin` whose parent is n: the caller of n's listing.
ChildOnPath(origin, n) ==
    CHOOSE c \in Ancestors(origin) : registries[c].parent = n

\* One synchronous segment of a listActions of task t that enters
\* listActions on node n.
ListActionsEnter(t, cur, n) ==
    LET s == Registry_listActions(n) 
        ctx == getRegistryInstance(t) IN
    IF s.kind = "merge"
    THEN /\ task' = [task EXCEPT ![t] = [cur EXCEPT !.pc = "listMerge",
                                                 !.at = s.node, !.wait = <<>>,
                                                 !.pend = <<>>]]
         /\ UNCHANGED registries
    ELSE LET names == PluginKeys(s.node) 
             ip == Registry_initializePlugin(s.node, names[1], ctx) IN
         /\ registries' = [registries EXCEPT ![s.node].pluginsByName = ip.plugins]
         /\ task' = [task EXCEPT ![t] =
                       [cur EXCEPT !.pc = "listInit", !.at = s.node,
                                   !.wait = ip.wait, !.pend = Tail(names),
                                   !.inits = @ + ip.started]]

\* The module-level listActions().
ListActions(t) ==
    /\ IsIdle(t)
    /\ LET n == getRegistryInstance(t) IN
       ListActionsEnter(t, [Idle EXCEPT !.op = "listActions", !.node = n,
                                        !.names = PluginKeys(n)], n)
    /\ obs' = NoObs
    /\ UNCHANGED <<registryAls, lastRegistered>>

\* The await of one plugin's initialization settles: the loop goes on with the
\* next name, and after the last with the parent's listing.
ListActionsInitResume(t) ==
    /\ task[t].pc = "listInit"
    /\ Settled(task[t].wait)
    /\ LET n == task[t].at 
           ctx == getRegistryInstance(t) IN
       IF Failed(task[t].wait)
       THEN /\ obs' = Outcome(t, "listActions", task[t].node, <<>>,
                              [status |-> "error", names |-> task[t].names,
                               error |-> Thrown(task[t].wait),
                               inits |-> task[t].inits])
            /\ task' = [task EXCEPT ![t] = Idle]
            /\ UNCHANGED registries
       ELSE IF task[t].pend # <<>>
       THEN LET ip == Registry_initializePlugin(n, Head(task[t].pend), ctx) IN
            /\ registries' = [registries EXCEPT ![n].pluginsByName = ip.plugins]
            /\ task' = [task EXCEPT ![t].wait = ip.wait, ![t].pend = Tail(@),
                                    ![t].inits = @ + ip.started]
            /\ obs' = NoObs
       ELSE IF registries[n].parent # NoParent
       THEN /\ ListActionsEnter(t, [task[t] EXCEPT !.wait = <<>>],
                                registries[n].parent)
            /\ obs' = NoObs
       ELSE /\ task' = [task EXCEPT ![t].pc = "listMerge", ![t].wait = <<>>]
            /\ obs' = NoObs
            /\ UNCHANGED registries
    /\ UNCHANGED <<registryAls, lastRegistered>>

\* The await of the parent's listing settles on node `at`: the node spreads its
\* own table over it and returns the result to its caller.
ListActionsMergeResume(t) ==
    /\ task[t].pc = "listMerge"
    /\ LET n == task[t].at 
           merged == Merge(task[t].acc, registries[n].actionsById) IN
       IF n = task[t].node
       THEN /\ obs' = Outcome(t, "listActions", n, <<>>,
                              [acc |-> merged, sub |-> task[t].acc,
                               names |-> task[t].names, inits |-> task[t].inits])
            /\ task' = [task EXCEPT ![t] = Idle]
       ELSE /\ task' = [task EXCEPT ![t].at = ChildOnPath(task[t].node, n),
                                    ![t].acc = merged]
            /\ obs' = NoObs
    /\ UNCHANGED <<registries, registryAls, lastRegistered>>

(***************************************************************************)
(* Trace stores and flow state stores.  A provider returns a promise of a  *)
(* store each time it is invoked; the promises a node's providers have     *)
(* returned for an environment are numbered in the order of the            *)
(* invocations, and the cache holds the number of one of them (0: none).   *)
(***************************************************************************)
\* Registry.registerTraceStore: this.traceStoresByEnv[env] = traceStoreProvider
Registry_registerTraceStore(n, env, provider) ==
    [registries[n].traceStoresByEnv EXCEPT ![env] = provider]

\* Registry.registerFlowStateStore: this.flowStateStoresByEnv[env] = provider
Registry_registerFlowStateStore(n, env, provider) ==
    [registries[n].flowStateStoresByEnv EXCEPT ![env] = provider]

Registry_lookupOverlaidTraceStore_Uncached(n, env) ==
    LET r == registries[n] 
        newStore == Len(r.traceStorePromises[env]) + 1 IN
    IF r.traceStoresByEnv[env] = Undefined
    THEN [registry |-> r, promise |-> 0]
    ELSE [registry |-> [r EXCEPT !.traceStorePromises[env] =
                           Append(@, [by |-> r.traceStoresByEnv[env],
                                      state |-> "pending"])],
          promise |-> newStore]

\* Registry.lookupOverlaidTraceStore: the promise the call returns (0: a
\* promise of undefined) and the node after it.
Registry_lookupOverlaidTraceStore(n, env) ==
    LET r == registries[n] 
        cached == r.traceStoresByEnvCache[env] 
        newStore == Len(r.traceStorePromises[env]) + 1 IN
    IF r.traceStoresByEnv[env] = Undefined
    THEN [registry |-> r, promise |-> 0]
    ELSE IF cached = 0
    THEN [registry |-> [r EXCEPT !.traceStorePromises[env] =
                           Append(@, [by |-> r.traceStoresByEnv[env],
                                      state |-> "pending"]),
                                 !.traceStoresByEnvCache[env] = newStore],
          promise |-> newStore]
    ELSE [registry |-> r, promise |-> cached]

\* Registry.lookupOverlaidFlowStateStore
Registry_lookupOverlaidFlowStateStore(n, env) ==
    LET r == registries[n] 
        cached == r.flowStateStoresByEnvCache[env] 
        newStore == Len(r.flowStateStorePromises[env]) + 1 IN
    IF r.flowStateStoresByEnv[env] = Undefined
    THEN [registry |-> r, promise |-> 0]
    ELSE IF cached = 0
    THEN [registry |-> [r EXCEPT !.flowStateStorePromises[env] =
                           Append(@, [by |-> r.flowStateStoresByEnv[env],
                                      state |-> "pending"]),
                                 !.flowStateStoresByEnvCache[env] = newStore],
          promise |-> newStore]
    ELSE [registry |-> r, promise |-> cached]

\* The store providers: "f1" and "f2" construct the stores "f1" and "f2",
\* "nil" resolves with undefined, "bad" rejects.
StoreProviders == {"f1", "f2", "nil", "bad"}

\* What the promise returned by a provider settles with.
Constructed(provider) == IF provider = "nil" THEN Undefined ELSE provider

\* The cache and the promises of a node for one kind of store.
StoresByEnvCache(n, kind) ==
    IF kind = "traceStore" THEN registries[n].traceStoresByEnvCache
    ELSE registries[n].flowStateStoresByEnvCache

StorePromises(n, kind) ==
    IF kind = "traceStore" THEN registries[n].traceStorePromises
    ELSE registries[n].flowStateStorePromises

\* The kind of store a call looks up; the module-level lookupPlugin(name)
\* calls lookupFlowStateStore(name) on the current registry.
StoreKind(op) == IF op = "lookupTraceStore" THEN "traceStore" ELSE "flowStateStore"

\* Registry.lookupTraceStore / Registry.lookupFlowStateStore from the start of
\* the method on n to its await of the promise of lookupOverlaid...Store.
LookupStoreEnter(t, cur, n) ==
    LET r == IF StoreKind(cur.op) = "traceStore"
             THEN Registry_lookupOverlaidTraceStore(n, cur.key)
             ELSE Registry_lookupOverlaidFlowStateStore(n, cur.key) IN
    /\ registries' = [registries EXCEPT ![n] = r.registry]
    /\ task' = [task EXCEPT ![t] = [cur EXCEPT !.pc = "lookupStore", !.at = n,
                                               !.promise = r.promise]]
    /\ obs' = NoObs

RegisterTraceStore(t, env, provider) ==
    /\ IsIdle(t)
    /\ LET n == getRegistryInstance(t) IN
       /\ registries' = [registries EXCEPT ![n].traceStoresByEnv =
                           Registry_registerTraceStore(n, env, provider)]
       /\ obs' = Outcome(t, "registerTraceStore", n, env, [val |-> provider])
    /\ UNCHANGED <<registryAls, task, lastRegistered>>

RegisterFlowStateStore(t, env, provider) ==
    /\ IsIdle(t)
    /\ LET n == getRegistryInstance(t) IN
       /\ registries' = [registries EXCEPT ![n].flowStateStoresByEnv =
                           Registry_registerFlowStateStore(n, env, provider)]
       /\ obs' = Outcome(t, "registerFlowStateStore", n, env, [val |-> provider])
    /\ UNCHANGED <<registryAls, task, lastRegistered>>

\* A module-level call that looks up a store: op is the function called.
LookupStore(t, op, env) ==
    /\ IsIdle(t)
    /\ LET n == getRegistryInstance(t) IN
       LookupStoreEnter(t, [Idle EXCEPT !.op = op, !.node = n, !.key = env], n)
    /\ UNCHANGED <<registryAls, lastRegistered>>

\* The module-level lookupTraceStore(env).
LookupTraceStore(t, env) == LookupStore(t, "lookupTraceStore", env)

\* The module-level lookupFlowStateStore(env).
LookupFlowStateStore(t, env) == LookupStore(t, "lookupFlowStateStore", env)

\* The module-level lookupPlugin(name).
LookupPlugin(t, name) == LookupStore(t, "lookupPlugin", name)

\* The promise a provider returned settles: it resolves with what the provider
\* constructed, or it rejects.
StoreProviderSettle(n, kind, env) ==
    /\ n \in Created
    /\ \E i \in 1..Len(StorePromises(n, kind)[env]) :
          LET settled == IF StorePromises(n, kind)[env][i].by = "bad"
                         THEN "rejected" ELSE "resolved" IN
          /\ StorePromises(n, kind)[env][i].state = "pending"
          /\ registries' =
                IF kind = "traceStore"
                THEN [registries EXCEPT
                        ![n].traceStorePromises[env][i].state = settled]
                ELSE [registries EXCEPT
                        ![n].flowStateStorePromises[env][i].state = settled]
    /\ obs' = NoObs
    /\ UNCHANGED <<registryAls, task, lastRegistered>>

\* The await of the overlaid lookup settles on node `at`: a rejection is thrown
\* to the caller, a store is returned to the caller, anything else gives way
\* to the parent's lookup.
LookupStoreResume(t) ==
    /\ task[t].pc = "lookupStore"
    /\ LET n == task[t].at 
           i == task[t].promise 
           made == StorePromises(n, StoreKind(task[t].op))[task[t].key] 
           settled == IF i = 0 THEN TRUE ELSE made[i].state # "pending" 
           rejected == IF i = 0 THEN FALSE ELSE made[i].state = "rejected" 
           store == IF i = 0 THEN Undefined ELSE Constructed(made[i].by) IN
       /\ settled
       /\ IF rejected
          THEN /\ obs' = Outcome(t, task[t].op, task[t].node, task[t].key,
                                 [status |-> "error",
                                  error |-> Rejection(made[i].by),
                                  walk |-> task[t].walk \o <<Read(n, Undefined)>>,
                                  inits |-> i])
               /\ task' = [task EXCEPT ![t] = Idle]
               /\ UNCHANGED registries
          ELSE IF store # Undefined \/ registries[n].parent = NoParent
          THEN /\ obs' = Outcome(t, task[t].op, task[t].node, task[t].key,
                                 [val |-> store,
                                  walk |-> task[t].walk \o <<Read(n, store)>>,
                                  inits |-> i])
               /\ task' = [task EXCEPT ![t] = Idle]
               /\ UNCHANGED registries
          ELSE LookupStoreEnter(t, [task[t] EXCEPT
                                      !.walk = @ \o <<Read(n, store)>>],
                                registries[n].parent)
    /\ UNCHANGED <<registryAls, lastRegistered>>

(***************************************************************************)
(* Specifications.  Each one offers the operations and the inputs of one   *)
(* part of the registry; the tables it leaves alone stay empty.            *)
(***************************************************************************)
\* The plugin providers: "late" registers its action after its first
\* suspension point and resolves; "fail" rejects after its first suspension
\* point.  (A third, "reentrant", awaits after its first suspension point a
\* lookupAction of the key of its own action and resolves; only the
\* specification of re-entrant initializers registers it.)
Providers == {"late", "fail"}

\* No other call chain is inside a call: task t issues its call between the
\* calls of the others.
Alone(t) == \A u \in Tasks \ {t} : IsIdle(u)

\* The tables of every registry other than those named are as constructed: the
\* behaviour so far has left them alone.
Only(fields) ==
    \A n \in Created :
       \A f \in {"actionsById", "traceStoresByEnv", "flowStateStoresByEnv",
                 "pluginsByName", "schemasByName"} \ fields :
          registries[n][f] = NewRegistry(NoParent)[f]

\* Chain lookups, one call at a time; a behaviour registers schemas, or
\* plugins, or actions.
NextChain ==
    \/ \E t \in Tasks : Alone(t) /\ RunInTempRegistry(t)
    \/ \E t \in Tasks : Alone(t) /\ RunInRegistryReturn(t)
    \/ \E t \in Tasks, d \in {"zod", "json"} :
          Alone(t) /\ Only({"schemasByName"}) /\ RegisterSchema(t, SchemaS, d)
    \/ \E t \in Tasks : Alone(t) /\ LookupSchema(t, SchemaS)
    \/ \E t \in Tasks, p \in Providers :
          /\ Alone(t)
          /\ Only({"pluginsByName"})
          /\ RegisterPluginProvider(t, PluginP, p)
    \/ \E t \in Tasks : Alone(t) /\ RegistryLookupPlugin(t, PluginP)
    \/ \E t \in Tasks, a \in {Act(NameX, "a1"), Act(NameX, "a2")} :
          Alone(t) /\ Only({"actionsById"}) /\ RegisterAction(t, TypeModel, a)
    \/ \E t \in Tasks : Alone(t) /\ LookupAction(t, KeyX)
    \/ \E t \in Tasks : LookupActionResume(t)
    \/ \E n \in NodeIds : InitializerResume(n, PluginP)

SpecChain == Init /\ [][NextChain]_vars

\* Registrations inside and outside temporary scopes: of actions, plugins and
\* schemas, or of trace stores, or of flow state stores.
NextOverlay ==
    \/ \E t \in Tasks : RunInTempRegistry(t)
    \/ \E t \in Tasks : RunInRegistryReturn(t)
    \/ \E t \in Tasks :
          /\ Only({"actionsById", "pluginsByName", "schemasByName"})
          /\ RegisterAction(t, TypeModel, Act(NameX, "a1"))
    \/ \E t \in Tasks :
          Only({"traceStoresByEnv"}) /\ RegisterTraceStore(t, EnvDev, "f1")
    \/ \E t \in Tasks :
          Only({"flowStateStoresByEnv"}) /\ RegisterFlowStateStore(t, EnvDev, "f1")
    \/ \E t \in Tasks :
          /\ Only({"actionsById", "pluginsByName", "schemasByName"})
          /\ RegisterPluginProvider(t, PluginP, "late")
    \/ \E t \in Tasks :
          /\ Only({"actionsById", "pluginsByName", "schemasByName"})
          /\ RegisterSchema(t, SchemaS, "zod")

SpecOverlay == Init /\ [][NextOverlay]_vars

\* Lookups of every kind inside isolated scopes, one call at a time, over
\* registrations of one kind.
NextIsolated ==
    \/ \E t \in Tasks : Alone(t) /\ RunInTempRegistry(t)
    \/ \E t \in Tasks : Alone(t) /\ RunInIsolatedRegistry(t)
    \/ \E t \in Tasks : Alone(t) /\ RunInRegistryReturn(t)
    \/ \E t \in Tasks :
          /\ Alone(t)
          /\ Only({"actionsById"})
          /\ RegisterAction(t, TypeModel, Act(NameX, "a1"))
    \/ \E t \in Tasks :
          /\ Alone(t)
          /\ Only({"traceStoresByEnv"})
          /\ RegisterTraceStore(t, EnvDev, "f1")
    \/ \E t \in Tasks :
          /\ Alone(t)
          /\ Only({"flowStateStoresByEnv"})
          /\ RegisterFlowStateStore(t, EnvDev, "f1")
    \/ \E t \in Tasks :
          /\ Alone(t)
          /\ Only({"schemasByName"})
          /\ RegisterSchema(t, SchemaS, "zod")
    \/ \E t \in Tasks : Alone(t) /\ LookupAction(t, KeyX)
    \/ \E t \in Tasks : LookupActionResume(t)
    \/ \E t \in Tasks : Alone(t) /\ LookupTraceStore(t, EnvDev)
    \/ \E t \in Tasks : Alone(t) /\ LookupFlowStateStore(t, EnvDev)
    \/ \E t \in Tasks : LookupStoreResume(t)
    \/ \E n \in NodeIds, k \in StoreKinds : StoreProviderSettle(n, k, EnvDev)
    \/ \E t \in Tasks : Alone(t) /\ LookupSchema(t, SchemaS)

SpecIsolated == Init /\ [][NextIsolated]_vars

\* Concurrent lookups of stores, of one kind in a behaviour.
NextStores ==
    \/ \E t \in Tasks : RunInTempRegistry(t)
    \/ \E t \in Tasks : RunInRegistryReturn(t)
    \/ \E t \in Tasks :
          Only({"traceStoresByEnv"}) /\ RegisterTraceStore(t, EnvDev, "f1")
    \/ \E t \in Tasks :
          Only({"flowStateStoresByEnv"}) /\ RegisterFlowStateStore(t, EnvDev, "f1")
    \/ \E t \in Tasks :
          Only({"traceStoresByEnv"}) /\ LookupTraceStore(t, EnvDev)
    \/ \E t \in Tasks :
          Only({"flowStateStoresByEnv"}) /\ LookupFlowStateStore(t, EnvDev)
    \/ \E t \in Tasks : LookupStoreResume(t)
    \/ \E n \in NodeIds, k \in StoreKinds : StoreProviderSettle(n, k, EnvDev)

SpecStores == Init /\ [][NextStores]_vars

\* Concurrent lookups of the action of a plugin registered between them.
NextPlugins ==
    \/ \E t \in Tasks : RunInTempRegistry(t)
    \/ \E t \in Tasks : RunInRegistryReturn(t)
    \/ \E t \in Tasks, p \in Providers :
          Alone(t) /\ RegisterPluginProvider(t, PluginP, p)
    \/ \E t \in Tasks : LookupAction(t, KeyX)
    \/ \E t \in Tasks : LookupActionResume(t)
    \/ \E n \in NodeIds : InitializerResume(n, PluginP)

SpecPlugins == Init /\ [][NextPlugins]_vars

\* The module-level lookupPlugin next to the method of the current registry,
\* for a name ("dev") that a plugin and a flow state store can both be
\* registered under.
NextModule ==
    \/ \E t \in Tasks : RunInTempRegistry(t)
    \/ \E t \in Tasks : RunInRegistryReturn(t)
    \/ \E t \in Tasks : Alone(t) /\ RegisterPluginProvider(t, EnvDev, "late")
    \/ \E t \in Tasks : Alone(t) /\ RegisterFlowStateStore(t, EnvDev, "f1")
    \/ \E t \in Tasks : RegistryLookupPlugin(t, EnvDev)
    \/ \E t \in Tasks : LookupPlugin(t, EnvDev)
    \/ \E t \in Tasks : LookupStoreResume(t)
    \/ \E n \in NodeIds : StoreProviderSettle(n, "flowStateStore", EnvDev)

SpecModule == Init /\ [][NextModule]_vars

\* Listings of actions registered directly and by plugins, one call at a time.
NextListing ==
    \/ \E t \in Tasks : Alone(t) /\ RunInTempRegistry(t)
    \/ \E t \in Tasks : Alone(t) /\ RunInRegistryReturn(t)
    \/ \E t \in Tasks : Alone(t) /\ RegisterAction(t, TypeModel, Act(NameX, "a1"))
    \/ \E t \in Tasks : Alone(t) /\ RegisterPluginProvider(t, PluginP, "late")
    \/ \E t \in Tasks : Alone(t) /\ ListActions(t)
    \/ \E t \in Tasks : ListActionsInitResume(t)
    \/ \E t \in Tasks : ListActionsMergeResume(t)
    \/ \E n \in NodeIds : InitializerResume(n, PluginP)

SpecListing == Init /\ [][NextListing]_vars

\* Overwriting registrations of actions among concurrent lookups and listings.
NextOverwrite ==
    \/ \E t \in Tasks : RunInTempRegistry(t)
    \/ \E t \in Tasks : RunInRegistryReturn(t)
    \/ \E t \in Tasks, a \in {Act(NameX, "a1"), Act(NameX, "a2")} :
          RegisterAction(t, TypeModel, a)
    \/ \E t \in Tasks : LookupAction(t, KeyX)
    \/ \E t \in Tasks : LookupActionResume(t)
    \/ \E t \in Tasks : ListActions(t)
    \/ \E t \in Tasks : ListActionsMergeResume(t)

SpecOverwrite == Init /\ [][NextOverwrite]_vars

\* Lookups of keys of every shape, one call at a time.
NextKeys ==
    \/ \E t \in Tasks : Alone(t) /\ RunInTempRegistry(t)
    \/ \E t \in Tasks : Alone(t) /\ RunInRegistryReturn(t)
    \/ \E t \in Tasks :
          Alone(t) /\ RegisterAction(t, TypeModel, Act(NameLong, "a1"))
    \/ \E t \in Tasks : Alone(t) /\ RegisterPluginProvider(t, PluginP, "late")
    \/ \E t \in Tasks, key \in {KeyX, KeyShort, KeyLong} :
          Alone(t) /\ LookupAction(t, key)
    \/ \E t \in Tasks : LookupActionResume(t)
    \/ \E n \in NodeIds : InitializerResume(n, PluginP)

SpecKeys == Init /\ [][NextKeys]_vars

\* Lookups of stores on nodes with and without a provider of their own, among
\* them a provider that resolves with undefined; one call at a time, stores of
\* one kind in a behaviour.
NextLocalStore ==
    \/ \E t \in Tasks : Alone(t) /\ RunInTempRegistry(t)
    \/ \E t \in Tasks : Alone(t) /\ RunInRegistryReturn(t)
    \/ \E t \in Tasks, f \in {"f1", "nil"} :
          /\ Alone(t)
          /\ Only({"traceStoresByEnv"})
          /\ RegisterTraceStore(t, EnvDev, f)
    \/ \E t \in Tasks, f \in {"f1", "nil"} :
          /\ Alone(t)
          /\ Only({"flowStateStoresByEnv"})
          /\ RegisterFlowStateStore(t, EnvDev, f)
    \/ \E t \in Tasks : Alone(t) /\ LookupTraceStore(t, EnvDev)
    \/ \E t \in Tasks : Alone(t) /\ LookupFlowStateStore(t, EnvDev)
    \/ \E t \in Tasks : LookupStoreResume(t)
    \/ \E n \in NodeIds, k \in StoreKinds : StoreProviderSettle(n, k, EnvDev)

SpecLocalStore == Init /\ [][NextLocalStore]_vars

\* Registrations that replace earlier ones, each followed by lookups; one call
\* at a time, registrations of one kind in a behaviour.
NextVisible ==
    \/ \E t \in Tasks : Alone(t) /\ RunInTempRegistry(t)
    \/ \E t \in Tasks : Alone(t) /\ RunInRegistryReturn(t)
    \/ \E t \in Tasks, a \in {Act(NameX, "a1"), Act(NameX, "a2")} :
          Alone(t) /\ Only({"actionsById"}) /\ RegisterAction(t, TypeModel, a)
    \/ \E t \in Tasks, d \in {"zod", "json"} :
          Alone(t) /\ Only({"schemasByName"}) /\ RegisterSchema(t, SchemaS, d)
    \/ \E t \in Tasks, p \in Providers :
          /\ Alone(t)
          /\ Only({"pluginsByName"})
          /\ RegisterPluginProvider(t, PluginP, p)
    \/ \E t \in Tasks, f \in {"f1", "f2"} :
          /\ Alone(t)
          /\ Only({"traceStoresByEnv"})
          /\ RegisterTraceStore(t, EnvDev, f)
    \/ \E t \in Tasks, f \in {"f1", "f2"} :
          /\ Alone(t)
          /\ Only({"flowStateStoresByEnv"})
          /\ RegisterFlowStateStore(t, EnvDev, f)
    \/ \E t \in Tasks :
          Alone(t) /\ Only({"actionsById"}) /\ LookupAction(t, KeyX)
    \/ \E t \in Tasks : LookupActionResume(t)
    \/ \E t \in Tasks : Alone(t) /\ LookupSchema(t, SchemaS)
    \/ \E t \in Tasks : Alone(t) /\ RegistryLookupPlugin(t, PluginP)
    \/ \E t \in Tasks : Alone(t) /\ LookupTraceStore(t, EnvDev)
    \/ \E t \in Tasks : Alone(t) /\ LookupFlowStateStore(t, EnvDev)
    \/ \E t \in Tasks : LookupStoreResume(t)
    \/ \E n \in NodeIds, k \in StoreKinds : StoreProviderSettle(n, k, EnvDev)

SpecVisible == Init /\ [][NextVisible]_vars

\* Concurrent calls of initializePlugin on nodes with and without the plugin.
NextInitialize ==
    \/ \E t \in Tasks : RunInTempRegistry(t)
    \/ \E t \in Tasks : RunInRegistryReturn(t)
    \/ \E t \in Tasks, p \in Providers :
          Alone(t) /\ RegisterPluginProvider(t, PluginP, p)
    \/ \E t \in Tasks : InitializePlugin(t, PluginP)
    \/ \E t \in Tasks : InitializePluginResume(t)
    \/ \E n \in NodeIds : InitializerResume(n, PluginP)

SpecInitialize == Init /\ [][NextInitialize]_vars

\* Calls that trigger initializers and store providers that fail, on the node
\* of the call and on its parent; one call at a time, plugins or trace stores
\* or flow state stores in a behaviour.
NextFailure ==
    \/ \E t \in Tasks : Alone(t) /\ RunInTempRegistry(t)
    \/ \E t \in Tasks : Alone(t) /\ RunInRegistryReturn(t)
    \/ \E t \in Tasks, p \in Providers :
          /\ Alone(t)
          /\ Only({"pluginsByName", "actionsById"})
          /\ RegisterPluginProvider(t, PluginP, p)
    \/ \E t \in Tasks, f \in {"f1", "bad"} :
          /\ Alone(t)
          /\ Only({"traceStoresByEnv"})
          /\ RegisterTraceStore(t, EnvDev, f)
    \/ \E t \in Tasks :
          /\ Alone(t)
          /\ Only({"flowStateStoresByEnv"})
          /\ RegisterFlowStateStore(t, EnvDev, "bad")
    \/ \E t \in Tasks :
          /\ Alone(t)
          /\ Only({"pluginsByName", "actionsById"})
          /\ LookupAction(t, KeyX)
    \/ \E t \in Tasks : LookupActionResume(t)
    \/ \E t \in Tasks :
          /\ Alone(t)
          /\ Only({"pluginsByName", "actionsById"})
          /\ InitializePlugin(t, PluginP)
    \/ \E t \in Tasks : InitializePluginResume(t)
    \/ \E t \in Tasks :
          /\ Alone(t)
          /\ Only({"pluginsByName", "actionsById"})
          /\ ListActions(t)
    \/ \E t \in Tasks : ListActionsInitResume(t)
    \/ \E t \in Tasks : ListActionsMergeResume(t)
    \/ \E n \in NodeIds : InitializerResume(n, PluginP)
    \/ \E t \in Tasks :
          Alone(t) /\ Only({"traceStoresByEnv"}) /\ LookupTraceStore(t, EnvDev)
    \/ \E t \in Tasks :
          /\ Alone(t)
          /\ Only({"flowStateStoresByEnv"})
          /\ LookupFlowStateStore(t, EnvDev)
    \/ \E t \in Tasks : LookupStoreResume(t)
    \/ \E n \in NodeIds, k \in StoreKinds : StoreProviderSettle(n, k, EnvDev)

SpecFailure == Init /\ [][NextFailure]_vars

\* Calls that initialize one plugin, registered and registered again between
\* them; calls of initializePlugin are issued while other calls are in flight.
NextMemo ==
    \/ \E t \in Tasks : Alone(t) /\ RunInTempRegistry(t)
    \/ \E t \in Tasks : Alone(t) /\ RunInRegistryReturn(t)
    \/ \E t \in Tasks : Alone(t) /\ RegisterPluginProvider(t, PluginP, "late")
    \/ \E t \in Tasks : Alone(t) /\ LookupAction(t, KeyX)
    \/ \E t \in Tasks : LookupActionResume(t)
    \/ \E t \in Tasks : InitializePlugin(t, PluginP)
    \/ \E t \in Tasks : InitializePluginResume(t)
    \/ \E t \in Tasks : Alone(t) /\ ListActions(t)
    \/ \E t \in Tasks : ListActionsInitResume(t)
    \/ \E t \in Tasks : ListActionsMergeResume(t)
    \/ \E n \in NodeIds : InitializerResume(n, PluginP)

SpecMemo == Init /\ [][NextMemo]_vars

\* Lookups and initializations repeated after a failure, with the failing
\* provider registered again in between; one call at a time, plugins or trace
\* stores or flow state stores in a behaviour.
NextRetry ==
    \/ \E t \in Tasks : Alone(t) /\ RunInTempRegistry(t)
    \/ \E t \in Tasks : Alone(t) /\ RunInRegistryReturn(t)
    \/ \E t \in Tasks :
          /\ Alone(t)
          /\ Only({"pluginsByName"})
          /\ RegisterPluginProvider(t, PluginP, "fail")
    \/ \E t \in Tasks :
          /\ Alone(t)
          /\ Only({"traceStoresByEnv"})
          /\ RegisterTraceStore(t, EnvDev, "bad")
    \/ \E t \in Tasks :
          /\ Alone(t)
          /\ Only({"flowStateStoresByEnv"})
          /\ RegisterFlowStateStore(t, EnvDev, "bad")
    \/ \E t \in Tasks : Alone(t) /\ InitializePlugin(t, PluginP)
    \/ \E t \in Tasks : InitializePluginResume(t)
    \/ \E n \in NodeIds : InitializerResume(n, PluginP)
    \/ \E t \in Tasks : Alone(t) /\ LookupTraceStore(t, EnvDev)
    \/ \E t \in Tasks : Alone(t) /\ LookupFlowStateStore(t, EnvDev)
    \/ \E t \in Tasks : LookupStoreResume(t)
    \/ \E n \in NodeIds, k \in StoreKinds : StoreProviderSettle(n, k, EnvDev)

SpecRetry == Init /\ [][NextRetry]_vars

\* Operations of every kind inside and outside temporary scopes; one call at a
\* time, over actions and plugins, or trace stores, or flow state stores.
NextFrame ==
    \/ \E t \in Tasks : Alone(t) /\ RunInTempRegistry(t)
    \/ \E t \in Tasks : Alone(t) /\ RunInRegistryReturn(t)
    \/ \E t \in Tasks :
          /\ Alone(t)
          /\ Only({"pluginsByName", "actionsById"})
          /\ RegisterAction(t, TypeModel, Act(NameX, "a1"))
    \/ \E t \in Tasks :
          /\ Alone(t)
          /\ Only({"pluginsByName", "actionsById"})
          /\ RegisterPluginProvider(t, PluginP, "late")
    \/ \E t \in Tasks :
          /\ Alone(t)
          /\ Only({"traceStoresByEnv"})
          /\ RegisterTraceStore(t, EnvDev, "f1")
    \/ \E t \in Tasks :
          /\ Alone(t)
          /\ Only({"flowStateStoresByEnv"})
          /\ RegisterFlowStateStore(t, EnvDev, "f1")
    \/ \E t \in Tasks : Alone(t) /\ LookupAction(t, KeyX)
    \/ \E t \in Tasks : LookupActionResume(t)
    \/ \E t \in Tasks : Alone(t) /\ InitializePlugin(t, PluginP)
    \/ \E t \in Tasks : InitializePluginResume(t)
    \/ \E t \in Tasks : Alone(t) /\ ListActions(t)
    \/ \E t \in Tasks : ListActionsInitResume(t)
    \/ \E t \in Tasks : ListActionsMergeResume(t)
    \/ \E n \in NodeIds : InitializerResume(n, PluginP)
    \/ \E t \in Tasks : Alone(t) /\ LookupTraceStore(t, EnvDev)
    \/ \E t \in Tasks : Alone(t) /\ LookupFlowStateStore(t, EnvDev)
    \/ \E t \in Tasks : LookupStoreResume(t)
    \/ \E n \in NodeIds, k \in StoreKinds : StoreProviderSettle(n, k, EnvDev)

SpecFrame == Init /\ [][NextFrame]_vars

\* Calls that initialize a plugin whose initializer awaits a lookupAction of
\* its own key, or one that does not; one call is issued at a time.
NextReentrant ==
    \/ \E t \in Tasks : Alone(t) /\ RunInTempRegistry(t)
    \/ \E t \in Tasks : Alone(t) /\ RunInRegistryReturn(t)
    \/ \E t \in Tasks, p \in {"late", "reentrant"} :
          Alone(t) /\ RegisterPluginProvider(t, PluginP, p)
    \/ \E t \in Tasks : Alone(t) /\ LookupAction(t, KeyX)
    \/ \E t \in Tasks : LookupActionResume(t)
    \/ \E t \in Tasks : Alone(t) /\ InitializePlugin(t, PluginP)
    \/ \E t \in Tasks : InitializePluginResume(t)
    \/ \E t \in Tasks : Alone(t) /\ ListActions(t)
    \/ \E t \in Tasks : ListActionsInitResume(t)
    \/ \E t \in Tasks : ListActionsMergeResume(t)
    \/ \E n \in NodeIds : InitializerResume(n, PluginP)
    \/ \E n \in NodeIds : InitializerLookup(n, PluginP)
    \/ \E n \in NodeIds : InitializerLookupResume(n, PluginP)

\* The event loop runs every continuation that is ready: the calls and the
\* initializers in flight take their steps.
FairReentrant ==
    /\ \A t \in Tasks :
          /\ WF_vars(LookupActionResume(t))
          /\ WF_vars(InitializePluginResume(t))
          /\ WF_vars(ListActionsInitResume(t))
          /\ WF_vars(ListActionsMergeResume(t))
    /\ \A n \in NodeIds :
          /\ WF_vars(InitializerResume(n, PluginP))
          /\ WF_vars(InitializerLookup(n, PluginP))
          /\ WF_vars(InitializerLookupResume(n, PluginP))

SpecReentrant == Init /\ [][NextReentrant]_vars /\ FairReentrant

(***************************************************************************)
(* Properties.  They read the outcome of the call that returned in the     *)
(* last step (obs) against the state that step left.                       *)
(***************************************************************************)
\* The registry bound for task t, read off the stacks of bindings als.
BoundIn(als, t) ==
    IF als[t] = <<>> THEN GlobalRegistry ELSE als[t][Len(als[t])]

CurrentNode(t) == BoundIn(registryAls, t)

\* The tables of a registry nothing has been registered on.
NoTables ==
    [actionsById |-> EmptyActions, traceStoresByEnv |-> EmptyEnvs,
     flowStateStoresByEnv |-> EmptyEnvs, pluginsByName |-> <<>>,
     schemasByName |-> EmptySchemas]

RegistrationOps ==
    {"registerAction", "registerTraceStore", "registerFlowStateStore",
     "registerPluginProvider", "registerSchema"}

StoreLookupOps == {"lookupTraceStore", "lookupFlowStateStore"}

\* What node n itself holds under the key of a lookup by the function op.
LocalBinding(n, op, key) ==
    IF op = "lookupAction" THEN Get(registries[n].actionsById, key)
    ELSE IF op = "lookupSchema" THEN registries[n].schemasByName[key]
    ELSE IF op = "lookupTraceStore" THEN registries[n].traceStoresByEnv[key]
    ELSE registries[n].flowStateStoresByEnv[key]

RECURSIVE PlainChainLookup(_, _)
\* The plain local-then-parent result of the action tables from node n.
PlainChainLookup(n, key) ==
    IF key \in DOMAIN registries[n].actionsById
    THEN registries[n].actionsById[key]
    ELSE IF registries[n].parent = NoParent THEN Undefined
    ELSE PlainChainLookup(registries[n].parent, key)

\* C1: a lookup on node N returns N's local value when N has one and
\* otherwise exactly what the same lookup on N's parent returns (absent
\* without a parent).  lookupSchema and lookupPlugin answer in one step;
\* lookupAction reads N's table, and only when that read finds nothing the
\* tables of the successive parents, and returns the first value found.
C1_ChainLookup ==
    /\ obs.op = "lookupSchema" =>
          obs.val =
             IF registries[obs.node].schemasByName[obs.key] # Undefined
             THEN registries[obs.node].schemasByName[obs.key]
             ELSE IF registries[obs.node].parent = NoParent THEN Undefined
             ELSE Registry_lookupSchema(registries[obs.node].parent, obs.key)
    /\ obs.op = "Registry.lookupPlugin" =>
          obs.val =
             IF LocalPlugin(obs.node, obs.key) # Undefined
             THEN LocalPlugin(obs.node, obs.key)
             ELSE IF registries[obs.node].parent = NoParent THEN Undefined
             ELSE Registry_lookupPlugin(registries[obs.node].parent, obs.key)
    /\ (obs.op = "lookupAction" /\ obs.status = "ok") =>
          LET w == obs.walk 
              last == w[Len(w)] IN
          /\ w # <<>>
          /\ w[1].node = obs.node
          /\ \A i \in 1..(Len(w) - 1) :
                /\ w[i].val = Undefined
                /\ w[i + 1].node = registries[w[i].node].parent
          /\ obs.val = last.val
          /\ last.val = Get(registries[last.node].actionsById, obs.key)
          /\ obs.val = Undefined => registries[last.node].parent = NoParent

\* A lookupAction on a node with a parent returned the node's own action
\* while the parent holds a different action under the same key.
C1_Witness ==
    /\ obs.op = "lookupAction"
    /\ obs.status = "ok"
    /\ obs.val # Undefined
    /\ registries[obs.node].parent # NoParent
    /\ Get(registries[obs.node].actionsById, obs.key) = obs.val
    /\ Get(registries[registries[obs.node].parent].actionsById, obs.key)
          \notin {Undefined, obs.val}

\* C2: runInTempRegistry binds a new child of the node that was current, with
\* empty tables; and the tables of a node change only in a step that is a
\* module-level registration of a task whose current node it is, so that the
\* registrations of fn land on the temporary child and the node that was
\* current at the call keeps its tables.
C2_OverlayNonMutation ==
    [][/\ obs'.op = "runInTempRegistry" =>
            /\ obs'.node \notin DOMAIN registries
            /\ registries'[obs'.node].parent = CurrentNode(obs'.task)
            /\ BoundIn(registryAls', obs'.task) = obs'.node
            /\ TablesOf(registries'[obs'.node]) = NoTables
       /\ \A m \in DOMAIN registries \cap DOMAIN registries' :
            TablesOf(registries'[m]) # TablesOf(registries[m]) =>
               /\ obs'.op \in RegistrationOps
               /\ obs'.node = m
               /\ CurrentNode(obs'.task) = m]_vars

\* A registration made inside a temporary scope is on the temporary child and
\* not on the node that was current at the call.
C2_Witness ==
    /\ obs.op = "registerSchema"
    /\ CurrentNode(obs.task) = obs.node
    /\ registries[obs.node].parent # NoParent
    /\ registries[obs.node].schemasByName[obs.key] # Undefined
    /\ registries[registries[obs.node].parent].schemasByName[obs.key] = Undefined

C4_MemoizedConstruction ==
    /\ \A n \in Created, k \in StoreKinds, e \in Envs :
          /\ Len(StorePromises(n, k)[e]) <= 1
          /\ StoresByEnvCache(n, k)[e] = Len(StorePromises(n, k)[e])
    /\ \A t \in Tasks :
          (task[t].pc = "lookupStore" /\ task[t].promise # 0) =>
             task[t].promise =
                StoresByEnvCache(task[t].at, StoreKind(task[t].op))[task[t].key]
    /\ (obs.op \in StoreLookupOps /\ obs.val # Undefined) =>
          LET from == obs.walk[Len(obs.walk)].node 
              made == StorePromises(from, StoreKind(obs.op))[obs.key] IN
          /\ obs.inits = 1
          /\ made[1].state = "resolved"
          /\ made[1].by = obs.val

\* Two lookups of one environment are in flight on one node and await the
\* promise of the same construction.
C4_Witness ==
    \E t \in Tasks, u \in Tasks :
       /\ t # u
       /\ task[t].pc = "lookupStore"
       /\ task[u].pc = "lookupStore"
       /\ task[t].op = "lookupTraceStore"
       /\ task[u].op = task[t].op
       /\ task[u].key = task[t].key
       /\ task[u].at = task[t].at
       /\ task[t].promise = 1
       /\ task[u].promise = 1

\* C5: a lookupAction of /model/p/x, issued where the chain lookup of the
\* plugin table finds the plugin p whose initializer registers that action,
\* returns the action and invokes the initializer at most once.
C5_PluginTriggeredResolution ==
    (/\ obs.op = "lookupAction"
     /\ obs.key = KeyX
     /\ Registry_lookupPlugin(obs.node, PluginP) = "late") =>
       /\ obs.status = "ok"
       /\ obs.val = ProvidedAction(PluginP).impl
       /\ obs.inits <= 1

\* C6: the module-level lookupPlugin(name) returns what the method lookupPlugin
\* of the current registry returns and constructs no store.
C6_ModuleLookupPlugin ==
    obs.op = "lookupPlugin" =>
       /\ obs.node = CurrentNode(obs.task)
       /\ obs.val = Registry_lookupPlugin(obs.node, obs.key)
       /\ obs.inits = 0

\* C7: a listing returned by listActions on a node holds an action under the
\* key of every plugin registered on the node, and the initializer of every
\* such plugin has completed.
C7_ListingForcesPlugins ==
    (obs.op = "listActions" /\ obs.status = "ok") =>
       \A i \in DOMAIN obs.names :
          LocalPlugin(obs.node, obs.names[i]) = "late" =>
             /\ PluginEntry(obs.node, obs.names[i]).cached = "done"
             /\ ActionKey(TypeModel, ProvidedAction(obs.names[i]).name)
                   \in DOMAIN obs.acc

\* C8: the listing of a node maps a key to the node's local action when it
\* has one and otherwise to what the parent's listing maps it to (nothing
\* without a parent), so that its keys are the union of both.
C8_ListingMerge ==
    (obs.op = "listActions" /\ obs.status = "ok") =>
       LET local == registries[obs.node].actionsById IN
       /\ registries[obs.node].parent = NoParent => obs.sub = EmptyActions
       /\ DOMAIN obs.acc = DOMAIN obs.sub \cup DOMAIN local
       /\ \A k \in DOMAIN obs.acc :
             obs.acc[k] = IF k \in DOMAIN local THEN local[k] ELSE obs.sub[k]

\* A listing on a node with a parent holds the node's action under a key for
\* which the parent's listing holds a different one.
C8_Witness ==
    /\ obs.op = "listActions"
    /\ obs.status = "ok"
    /\ registries[obs.node].parent # NoParent
    /\ \E k \in DOMAIN obs.sub \cap DOMAIN registries[obs.node].actionsById :
          /\ registries[obs.node].actionsById[k] # obs.sub[k]
          /\ obs.acc[k] = registries[obs.node].actionsById[k]

\* C9: registerAction returns without an error and leaves its action in the
\* table, also over a different action of the same key; a lookupAction and a
\* listActions on a node yield, for a key registered on it, the action
\* registered last.
C9_LastWriteWins ==
    /\ obs.op = "registerAction" =>
          /\ obs.status = "ok"
          /\ Get(registries[obs.node].actionsById, obs.key) = obs.val
    /\ (obs.op = "lookupAction"
        /\ obs.key \in DOMAIN lastRegistered[obs.node]) =>
          /\ obs.status = "ok"
          /\ obs.val = lastRegistered[obs.node][obs.key].impl
    /\ obs.op = "listActions" =>
          \A k \in DOMAIN lastRegistered[obs.node] :
             /\ obs.status = "ok"
             /\ Get(obs.acc, k) = lastRegistered[obs.node][k].impl

\* A lookupAction returned the second of two different actions registered
\* under one key on its node.
C9_Witness ==
    /\ obs.op = "lookupAction"
    /\ obs.key \in DOMAIN lastRegistered[obs.node]
    /\ lastRegistered[obs.node][obs.key].over
    /\ obs.val = "a2"

\* C10: a lookupAction of a key that does not split into four segments calls
\* no initializePlugin, raises no error and returns the plain chain result of
\* the action tables; for a key of four segments the only plugin name it
\* passes to initializePlugin is the third segment.
C10_MalformedKeys ==
    obs.op = "lookupAction" =>
       /\ \A key \in ActionKeys :
             parsePluginName(key) =
                IF Len(split(key)) = 4 THEN <<split(key)[3]>> ELSE <<>>
       /\ IF Len(split(obs.key)) # 4
          THEN /\ obs.names = <<>>
               /\ obs.inits = 0
               /\ obs.status = "ok"
               /\ obs.val = PlainChainLookup(obs.node, obs.key)
          ELSE \A i \in DOMAIN obs.names : obs.names[i] = split(obs.key)[3]

\* A lookupAction of a key of five segments, whose third segment names a
\* plugin registered on the node and not yet initialized, found the action of
\* the parent.
C10_Witness ==
    /\ obs.op = "lookupAction"
    /\ obs.key = KeyLong
    /\ HasPlugin(obs.node, PluginP)
    /\ PluginEntry(obs.node, PluginP).cached = "unset"
    /\ registries[obs.node].parent # NoParent
    /\ obs.val # Undefined
    /\ Len(obs.walk) = 2

LocalProvider(n, op, env) ==
    IF StoreKind(op) = "traceStore" THEN registries[n].traceStoresByEnv[env]
    ELSE registries[n].flowStateStoresByEnv[env]

\* C12: a lookupTraceStore or lookupFlowStateStore on a node that has a
\* provider of its own for the environment reads that node alone, never the
\* parent, and returns what the node's cached construction produced, whatever
\* that value is.
C12_LocalBindingWins ==
    (/\ obs.op \in StoreLookupOps
     /\ obs.status = "ok"
     /\ LocalProvider(obs.node, obs.op, obs.key) # Undefined) =>
       LET k == StoreKind(obs.op) 
           cached == StoresByEnvCache(obs.node, k)[obs.key] IN
       /\ Len(obs.walk) = 1
       /\ obs.walk[1].node = obs.node
       /\ cached # 0
       /\ obs.val = Constructed(StorePromises(obs.node, k)[obs.key][cached].by)

\* C13: a registration is in the table of its node when it returns, and a
\* lookup on a node of a key or environment the node has a registration for
\* yields the latest registration: the action, the schema or the plugin
\* registered last, and the store of the store provider registered last.
C13_ImmediateVisibility ==
    /\ obs.op = "registerTraceStore" =>
          registries[obs.node].traceStoresByEnv[obs.key] = obs.val
    /\ obs.op = "registerFlowStateStore" =>
          registries[obs.node].flowStateStoresByEnv[obs.key] = obs.val
    /\ obs.op = "registerSchema" =>
          registries[obs.node].schemasByName[obs.key] = obs.val
    /\ obs.op = "registerPluginProvider" => LocalPlugin(obs.node, obs.key) = obs.val
    /\ obs.op = "registerAction" =>
          Get(registries[obs.node].actionsById, obs.key) = obs.val
    /\ (obs.op = "lookupAction" /\ obs.key \in DOMAIN lastRegistered[obs.node]) =>
          obs.val = lastRegistered[obs.node][obs.key].impl
    /\ (/\ obs.op = "lookupSchema"
        /\ registries[obs.node].schemasByName[obs.key] # Undefined) =>
          obs.val = registries[obs.node].schemasByName[obs.key]
    /\ (/\ obs.op = "Registry.lookupPlugin"
        /\ LocalPlugin(obs.node, obs.key) # Undefined) =>
          obs.val = LocalPlugin(obs.node, obs.key)
    /\ (/\ obs.op \in StoreLookupOps
        /\ LocalProvider(obs.node, obs.op, obs.key) # Undefined) =>
          /\ obs.status = "ok"
          /\ obs.val = Constructed(LocalProvider(obs.node, obs.op, obs.key))

\* C14: an initializePlugin(name) on a node without a binding of its own for
\* the name awaits nothing, invokes no initializer and returns absent, also
\* when an ancestor has the plugin; on a node with a binding it awaits the
\* memoized promise of that binding's initializer, invokes the initializer at
\* most once, and returns its result or throws its failure.
C14_InitializeLocalOnly ==
    /\ \A t \in Tasks :
          task[t].pc = "initializePlugin" =>
             /\ task[t].at = task[t].node
             /\ IF task[t].walk[1].val = Undefined
                THEN task[t].wait = <<>> /\ task[t].inits = 0
                ELSE task[t].wait = <<task[t].node, task[t].key>>
    /\ obs.op = "initializePlugin" =>
          IF obs.walk[1].val = Undefined
          THEN obs.status = "ok" /\ obs.val = Undefined /\ obs.inits = 0
          ELSE /\ obs.inits <= 1
               /\ HasPlugin(obs.node, obs.key)
               /\ PluginEntry(obs.node, obs.key).cached \in {"done", "failed"}
               /\ PluginEntry(obs.node, obs.key).cached = "done" =>
                     obs.status = "ok" /\ obs.val = Initialized
               /\ PluginEntry(obs.node, obs.key).cached = "failed" =>
                     obs.status = "error"

\* An initializePlugin on a temporary node without the plugin returned absent
\* while the parent holds the plugin, not initialized.
C14_Witness ==
    /\ obs.op = "initializePlugin"
    /\ obs.val = Undefined
    /\ obs.status = "ok"
    /\ ~HasPlugin(obs.node, obs.key)
    /\ registries[obs.node].parent # NoParent
    /\ HasPlugin(registries[obs.node].parent, obs.key)
    /\ PluginEntry(registries[obs.node].parent, obs.key).cached = "unset"

\* The call of task t awaits, in the state given by regs and tasks, an
\* initialization or a construction that has failed; the value is the provider
\* that failed (<<>>: the call awaits no failure).
AwaitedFailure(regs, tasks, t) ==
    LET c == tasks[t] IN
    IF c.pc \in {"lookupAction", "listInit", "initializePlugin"} /\ c.wait # <<>>
    THEN LET ps == regs[c.wait[1]].pluginsByName 
             i == CHOOSE j \in 1..Len(ps) : ps[j].name = c.wait[2] IN
         IF ps[i].cached = "failed" THEN <<ps[i].provider>> ELSE <<>>
    ELSE IF c.pc = "lookupStore" /\ c.promise # 0
    THEN LET made == IF c.op = "lookupTraceStore"
                     THEN regs[c.at].traceStorePromises[c.key]
                     ELSE regs[c.at].flowStateStorePromises[c.key] IN
         IF made[c.promise].state = "rejected" THEN <<made[c.promise].by>>
         ELSE <<>>
    ELSE <<>>

\* C15: when the initialization or the construction a call awaits has failed,
\* on the node of the call or on an ancestor it delegated to, the next step of
\* the call throws that failure to the caller of the operation: the call ends
\* with the failure of that provider, not with a value and not with a further
\* delegation; and a call ends with a failure only in this way.
C15_FailurePropagation ==
    [][/\ \A t \in Tasks :
            (AwaitedFailure(registries, task, t) # <<>> /\ task'[t] # task[t]) =>
               /\ task'[t] = Idle
               /\ obs'.task = t
               /\ obs'.op = task[t].op
               /\ obs'.node = task[t].node
               /\ obs'.status = "error"
               /\ obs'.error = AwaitedFailure(registries, task, t)
       /\ obs'.status = "error" =>
            /\ obs'.task \in Tasks
            /\ AwaitedFailure(registries, task, obs'.task) = obs'.error]_vars

\* A lookupAction issued on a temporary node ended with the failure of the
\* initializer of a plugin of its parent.
C15_Witness ==
    /\ obs.op = "lookupAction"
    /\ obs.status = "error"
    /\ obs.error = <<"fail">>
    /\ registries[obs.node].parent # NoParent
    /\ ~HasPlugin(obs.node, PluginP)
    /\ PluginEntry(registries[obs.node].parent, PluginP).cached = "failed"

\* C16: no step calls the initializer of a plugin for a node and a name for
\* which it has been called before: a call that finds the plugin registered
\* awaits the stored promise of the first call, whatever registerPluginProvider,
\* lookupAction, listActions and initializePlugin calls came in between.
C16_InitializerRunsOnce ==
    [][\A n \in DOMAIN registries \cap DOMAIN registries' :
          \A i \in 1..Len(registries[n].pluginsByName) :
             (/\ i <= Len(registries'[n].pluginsByName)
              /\ registries[n].pluginsByName[i].cached = "unset"
              /\ registries'[n].pluginsByName[i].cached = "pending") =>
                ~registries[n].pluginsByName[i].ran]_vars

\* C17: a store provider is invoked at most once for a node and an
\* environment, and its promise, also a rejected one, stays in the cache, so
\* that a lookup after a failed construction fails again; an initializer that
\* has been started for a node and a name leaves its promise stored, so that
\* it is never started again and an initializePlugin after a failed
\* initialization fails again without a new run.
C17_NoRetry ==
    /\ \A n \in Created, k \in StoreKinds, e \in Envs :
          /\ Len(StorePromises(n, k)[e]) <= 1
          /\ StoresByEnvCache(n, k)[e] = Len(StorePromises(n, k)[e])
    /\ (/\ obs.op \in StoreLookupOps
        /\ LocalProvider(obs.node, obs.op, obs.key) # Undefined
        /\ StorePromises(obs.node, StoreKind(obs.op))[obs.key][1].state = "rejected")
          => obs.status = "error"
    /\ \A n \in Created : \A i \in 1..Len(registries[n].pluginsByName) :
          registries[n].pluginsByName[i].ran =>
             registries[n].pluginsByName[i].cached # "unset"
    /\ (/\ obs.op = "initializePlugin"
        /\ obs.walk[1].val # Undefined
        /\ obs.inits = 0) => PluginEntry(obs.node, obs.key).ran

\* The caches of stores of a Registry object r.
CachesOf(r) == <<r.traceStoresByEnvCache, r.flowStateStoresByEnvCache>>

\* C18: a step changes the tables of a node only as a registration called on
\* that node or as the completion of the initializer of one of that node's own
\* plugins, and it changes the caches of stores of a node only as a store
\* lookup that is at that node; the tables of every other node stay as they
\* are, whichever registry is current.
C18_NoCrossNodeMutation ==
    [][\A m \in DOMAIN registries \cap DOMAIN registries' :
          /\ TablesOf(registries'[m]) # TablesOf(registries[m]) =>
                \/ obs'.op \in RegistrationOps /\ obs'.node = m
                \/ \E i \in 1..Len(registries[m].pluginsByName) :
                      /\ registries[m].pluginsByName[i].cached = "pending"
                      /\ registries'[m].pluginsByName[i].cached = "done"
          /\ CachesOf(registries'[m]) # CachesOf(registries[m]) =>
                \E t \in Tasks : /\ task'[t].pc = "lookupStore"
                                 /\ task'[t] # task[t]
                                 /\ task'[t].at = m]_vars

\* C19: a lookupAction of /model/p/x issued on a node that does not hold the
\* plugin p itself, while an ancestor holds it, returns the action p's
\* initializer registers; and once p's initializer has completed, a
\* lookupAction of the key issued on the node that holds p returns the action
\* as well.
C19_ResolutionThroughOverlay ==
    (obs.op = "lookupAction" /\ obs.key = KeyX /\ obs.status = "ok") =>
       /\ (/\ ~HasPlugin(obs.node, PluginP)
           /\ registries[obs.node].parent # NoParent
           /\ Registry_lookupPlugin(registries[obs.node].parent, PluginP) = "late")
             => obs.val = ProvidedAction(PluginP).impl
       /\ (/\ LocalPlugin(obs.node, PluginP) = "late"
           /\ PluginEntry(obs.node, PluginP).cached = "done")
             => obs.val = ProvidedAction(PluginP).impl

\* C20: every lookupAction, listActions and initializePlugin call that has
\* been issued eventually returns to its caller, with a value, with absent or
\* with a failure, also when the initializer it awaits itself awaits a
\* lookupAction of a key of its own plugin.
C20_Termination ==
    \A t \in Tasks : (~IsIdle(t)) ~> IsIdle(t)

====
